---------------------------- MODULE Spec2Model ----------------------------
(***************************************************************************)
(* Local AI Guard (src/ai_guard.py): a command-line auditor that sends     *)
(* each file to a local Ollama model and gates on the verdict.             *)
(*                                                                         *)
(* A Python str is a tuple of one-character strings, so that strip(),      *)
(* startswith(), Path.suffix, str.lower() and sorted() are computed the    *)
(* way Python computes them; a character that a TLA+ string cannot hold    *)
(* is written as its code point, "U+000B".  The file system, the encoding  *)
(* of standard output, the two HTTP endpoints and the text the model       *)
(* answers are the environment.  Of the console output the model keeps     *)
(* whether each print() can encode its text, since a print() that cannot   *)
(* raises; the timestamp field of a result is left out, no control flow    *)
(* reads it.                                                               *)
(***************************************************************************)
EXTENDS Integers, Sequences, FiniteSets, TLC

VARIABLES
    argv,        \* sys.argv[1:], each argument a str
    tree,        \* the file system below the current directory
    stdout,      \* sys.stdout.encoding
    pc,          \* position of main(): main, read, health, generate,
                 \* summary, exit, crashed
    file_paths,  \* main()'s file_paths once it is decided
    idx,         \* enumerate index i of batch_audit's loop (from 1)
    results,     \* batch_audit's results list
    reads,       \* history: what stat() and open() answered, per file
    calls,       \* history: every HTTP request issued, with its outcome
    exit_code,   \* process exit code, -1 while the process runs
    uncaught     \* the exception that left main() uncaught and the line
                 \* that raised it

vars == <<argv, tree, stdout, pc, file_paths, idx, results, reads, calls,
          exit_code, uncaught>>

---------------------------------------------------------------------------
(* Bounds of the model. *)

\* Longest command line: number of explicit file arguments.
MaxArgs == 2

---------------------------------------------------------------------------
(* Configuration, lines 23-34. *)

OLLAMA_BASE_URL == "http://localhost:11434"
MODEL_NAME == "gpt-oss:20b-cloud"
DEFAULT_TIMEOUT == 120

SEVERITY_REJECT == "REJECT"
SEVERITY_FLAG == "FLAG"
SEVERITY_PASS == "PASS"

AUDIT_EXTENSIONS ==
    { <<".", "t", "s">>, <<".", "j", "s">>, <<".", "p", "y">>, <<".", "t", "s", "x">>, <<".", "j", "s", "x">>, <<".", "e", "n", "v">>,
      <<".", "t", "e", "s", "t", ".", "t", "s">>, <<".", "s", "p", "e", "c", ".", "t", "s">> }

\* exclude_dirs of _get_files_in_directory, line 63.
exclude_dirs ==
    { <<".", "g", "i", "t">>, <<"n", "o", "d", "e", "_", "m", "o", "d", "u", "l", "e", "s">>, <<"_", "_", "p", "y", "c", "a", "c", "h", "e", "_", "_">>, <<".", "v", "e", "n", "v">>, <<"v", "e", "n", "v">>,
      <<"d", "i", "s", "t">>, <<"b", "u", "i", "l", "d">>, <<".", "e", "n", "v", ".", "l", "o", "c", "a", "l">>, <<".", "i", "d", "x">>, <<".", "v", "s", "c", "o", "d", "e">>,
      <<".", "n", "e", "x", "t">> }

---------------------------------------------------------------------------
(* Python str operations. *)

\* ord(c) for the alphabet of the model: printable ASCII but the grave
\* accent, the characters that str.isspace() accepts, the non-ASCII
\* characters the program prints and three cased non-ASCII letters with
\* the characters they lower to.
Ord ==
    "\t" :> 9 @@ "\n" :> 10 @@ "U+000B" :> 11 @@ "\f" :> 12 @@ "\r" :> 13 @@
    "U+001C" :> 28 @@ "U+001D" :> 29 @@ "U+001E" :> 30 @@ "U+001F" :> 31 @@ " " :> 32 @@
    "!" :> 33 @@ "\"" :> 34 @@ "#" :> 35 @@ "$" :> 36 @@ "%" :> 37 @@
    "&" :> 38 @@ "'" :> 39 @@ "(" :> 40 @@ ")" :> 41 @@ "*" :> 42 @@
    "+" :> 43 @@ "," :> 44 @@ "-" :> 45 @@ "." :> 46 @@ "/" :> 47 @@
    "0" :> 48 @@ "1" :> 49 @@ "2" :> 50 @@ "3" :> 51 @@ "4" :> 52 @@
    "5" :> 53 @@ "6" :> 54 @@ "7" :> 55 @@ "8" :> 56 @@ "9" :> 57 @@
    ":" :> 58 @@ ";" :> 59 @@ "<" :> 60 @@ "=" :> 61 @@ ">" :> 62 @@
    "?" :> 63 @@ "@" :> 64 @@ "A" :> 65 @@ "B" :> 66 @@ "C" :> 67 @@
    "D" :> 68 @@ "E" :> 69 @@ "F" :> 70 @@ "G" :> 71 @@ "H" :> 72 @@
    "I" :> 73 @@ "J" :> 74 @@ "K" :> 75 @@ "L" :> 76 @@ "M" :> 77 @@
    "N" :> 78 @@ "O" :> 79 @@ "P" :> 80 @@ "Q" :> 81 @@ "R" :> 82 @@
    "S" :> 83 @@ "T" :> 84 @@ "U" :> 85 @@ "V" :> 86 @@ "W" :> 87 @@
    "X" :> 88 @@ "Y" :> 89 @@ "Z" :> 90 @@ "[" :> 91 @@ "\\" :> 92 @@
    "]" :> 93 @@ "^" :> 94 @@ "_" :> 95 @@ "a" :> 97 @@ "b" :> 98 @@
    "c" :> 99 @@ "d" :> 100 @@ "e" :> 101 @@ "f" :> 102 @@ "g" :> 103 @@
    "h" :> 104 @@ "i" :> 105 @@ "j" :> 106 @@ "k" :> 107 @@ "l" :> 108 @@
    "m" :> 109 @@ "n" :> 110 @@ "o" :> 111 @@ "p" :> 112 @@ "q" :> 113 @@
    "r" :> 114 @@ "s" :> 115 @@ "t" :> 116 @@ "u" :> 117 @@ "v" :> 118 @@
    "w" :> 119 @@ "x" :> 120 @@ "y" :> 121 @@ "z" :> 122 @@ "{" :> 123 @@
    "|" :> 124 @@ "}" :> 125 @@ "~" :> 126 @@ "U+0085" :> 133 @@ "U+00A0" :> 160 @@
    "U+00C9" :> 201 @@ "U+00E9" :> 233 @@ "U+0130" :> 304 @@ "U+0307" :> 775 @@ "U+1680" :> 5760 @@
    "U+2000" :> 8192 @@ "U+2001" :> 8193 @@ "U+2002" :> 8194 @@ "U+2003" :> 8195 @@ "U+2004" :> 8196 @@
    "U+2005" :> 8197 @@ "U+2006" :> 8198 @@ "U+2007" :> 8199 @@ "U+2008" :> 8200 @@ "U+2009" :> 8201 @@
    "U+200A" :> 8202 @@ "U+2028" :> 8232 @@ "U+2029" :> 8233 @@ "U+202F" :> 8239 @@ "U+205F" :> 8287 @@
    "U+212A" :> 8490 @@ "U+26A0" :> 9888 @@ "U+2705" :> 9989 @@ "U+2713" :> 10003 @@ "U+2717" :> 10007 @@
    "U+3000" :> 12288 @@ "U+FE0F" :> 65039 @@ "U+1F6A8" :> 128680

Alphabet == DOMAIN Ord

\* str.lower() on one character of the alphabet that it changes: the
\* lower-case mapping of the Unicode database, which may give two
\* characters for one.
UpperToLower ==
    "A" :> <<"a">> @@ "B" :> <<"b">> @@ "C" :> <<"c">> @@ "D" :> <<"d">> @@
    "E" :> <<"e">> @@ "F" :> <<"f">> @@ "G" :> <<"g">> @@ "H" :> <<"h">> @@
    "I" :> <<"i">> @@ "J" :> <<"j">> @@ "K" :> <<"k">> @@ "L" :> <<"l">> @@
    "M" :> <<"m">> @@ "N" :> <<"n">> @@ "O" :> <<"o">> @@ "P" :> <<"p">> @@
    "Q" :> <<"q">> @@ "R" :> <<"r">> @@ "S" :> <<"s">> @@ "T" :> <<"t">> @@
    "U" :> <<"u">> @@ "V" :> <<"v">> @@ "W" :> <<"w">> @@ "X" :> <<"x">> @@
    "Y" :> <<"y">> @@ "Z" :> <<"z">> @@
    "U+00C9" :> <<"U+00E9">> @@ "U+0130" :> <<"i", "U+0307">> @@
    "U+212A" :> <<"k">>

\* s.lower()
RECURSIVE Lower(_)
Lower(s) ==
    IF s = <<>>
    THEN <<>>
    ELSE (IF Head(s) \in DOMAIN UpperToLower
          THEN UpperToLower[Head(s)]
          ELSE <<Head(s)>>) \o Lower(Tail(s))

\* The code points str.isspace() accepts, which are those str.strip()
\* removes.
WhitespaceCodePoints ==
    (9..13) \cup (28..32) \cup {133, 160, 5760} \cup (8192..8202)
    \cup {8232, 8233, 8239, 8287, 12288}

Whitespace == {c \in Alphabet : Ord[c] \in WhitespaceCodePoints}

\* len(s.encode("utf-8"))
Utf8Len(s) ==
    Len(s) + Cardinality({k \in 1..Len(s) : Ord[s[k]] >= 128})
           + Cardinality({k \in 1..Len(s) : Ord[s[k]] >= 2048})
           + Cardinality({k \in 1..Len(s) : Ord[s[k]] >= 65536})

\* The encodings standard output may have: UTF-8, which line 20 forces on
\* Windows and most terminals have, or ASCII (PYTHONIOENCODING, a C locale
\* without UTF-8 coercion).
StdoutEncodings == {"utf-8", "ascii"}

\* print(text) returns; otherwise it raises UnicodeEncodeError.
CanPrint(text, encoding) ==
    encoding = "utf-8" \/ \A k \in 1..Len(text) : Ord[text[k]] < 128

RECURSIVE LStrip(_)
LStrip(s) ==
    IF s # <<>> /\ Head(s) \in Whitespace THEN LStrip(Tail(s)) ELSE s

RECURSIVE RStrip(_)
RStrip(s) ==
    IF s # <<>> /\ s[Len(s)] \in Whitespace
    THEN RStrip(SubSeq(s, 1, Len(s) - 1))
    ELSE s

\* s.strip()
Strip(s) == RStrip(LStrip(s))

\* s.startswith(prefix)
StartsWith(s, prefix) ==
    /\ Len(prefix) <= Len(s)
    /\ SubSeq(s, 1, Len(prefix)) = prefix

\* a < b on str: code points, left to right; a proper prefix is smaller.
StrLess(a, b) ==
    LET n == IF Len(a) < Len(b) THEN Len(a) ELSE Len(b)
        diff == {k \in 1..n : a[k] # b[k]}
    IN  IF diff = {}
        THEN Len(a) < Len(b)
        ELSE LET k == CHOOSE d \in diff : \A e \in diff : d <= e
             IN  Ord[a[k]] < Ord[b[k]]

\* sorted(S) for a collection of distinct str.
RECURSIVE Sorted(_)
Sorted(S) ==
    IF S = {}
    THEN <<>>
    ELSE LET m == CHOOSE x \in S : \A y \in S : x = y \/ StrLess(x, y)
         IN  <<m>> \o Sorted(S \ {m})

Range(s) == {s[k] : k \in 1..Len(s)}

---------------------------------------------------------------------------
(* pathlib. *)

\* s.split("/") from position from on.
RECURSIVE SplitFrom(_, _)
SplitFrom(s, from) ==
    LET slashes == {k \in from..Len(s) : s[k] = "/"}
    IN  IF slashes = {}
        THEN <<SubSeq(s, from, Len(s))>>
        ELSE LET k == CHOOSE d \in slashes : \A e \in slashes : d <= e
             IN  <<SubSeq(s, from, k - 1)>> \o SplitFrom(s, k + 1)

\* A segment that Path() keeps: neither empty nor ".".
KeptSegment(seg) == seg # <<>> /\ seg # <<".">>

\* The root of Path(s): "/" for an absolute path, "//" when exactly two
\* slashes lead it, nothing for a relative path.
Anchor(s) ==
    LET solid == {k \in 1..Len(s) : s[k] # "/"}
        lead == IF solid = {}
                THEN Len(s)
                ELSE (CHOOSE a \in solid : \A b \in solid : a <= b) - 1
    IN  IF lead = 0 THEN <<>> ELSE IF lead = 2 THEN <<<<"/", "/">>>> ELSE <<<<"/">>>>

IsAnchor(part) == part # <<>> /\ part[1] = "/"

\* Path(s).parts
Parts(s) == Anchor(s) \o SelectSeq(SplitFrom(s, 1), KeptSegment)

\* "/".join(segments)
RECURSIVE JoinSegments(_)
JoinSegments(segments) ==
    IF segments = <<>>
    THEN <<>>
    ELSE IF Len(segments) = 1
         THEN segments[1]
         ELSE segments[1] \o <<"/">> \o JoinSegments(Tail(segments))

\* str(Path) built from its parts.
Join(parts) ==
    IF parts = <<>>
    THEN <<".">>
    ELSE IF IsAnchor(parts[1])
         THEN parts[1] \o JoinSegments(Tail(parts))
         ELSE JoinSegments(parts)

\* Path.suffix: the final component from its last dot on, unless that dot
\* is its first or its last character.
SuffixOfName(name) ==
    LET dots == {k \in 1..Len(name) : name[k] = "."}
    IN  IF dots = {}
        THEN <<>>
        ELSE LET i == CHOOSE d \in dots : \A e \in dots : e <= d
             IN  IF 1 < i /\ i < Len(name)
                 THEN SubSeq(name, i, Len(name))
                 ELSE <<>>

\* Path.suffix: that of the last part; the root has none.
Suffix(parts) ==
    IF parts = <<>> \/ IsAnchor(parts[Len(parts)])
    THEN <<>>
    ELSE SuffixOfName(parts[Len(parts)])

---------------------------------------------------------------------------
(* The file system.  An entry is [parts, kind], its parts relative to the  *)
(* current directory; the directories above an entry exist with it.  The   *)
(* kinds are "file", "dir" and three directories whose permissions stop    *)
(* this process: "nosearch", which it may list but not search (r--),       *)
(* "noread", which it may search but not list (--x), and "noaccess",       *)
(* which it may neither (---).  The current directory is /w, and the file  *)
(* system holds nothing outside it.                                        *)

\* Longest file name, in bytes, that the file system accepts; resolving a
\* longer one fails with ENAMETOOLONG.
NAME_MAX == 255

\* Length in bytes, the final NUL included, from which on the kernel
\* refuses a path with ENAMETOOLONG.
PATH_MAX == 4096

\* os.getcwd(), as parts below the root.
CwdParts == << <<"w">> >>

\* The directories above the entries of t that t does not name itself.
ParentDirs(t) ==
    {d \in UNION {{[parts |-> SubSeq(e.parts, 1, k), kind |-> "dir"] :
                      k \in 1..(Len(e.parts) - 1)} : e \in t} :
        \A e \in t : e.parts # d.parts}

\* No path is two things at once.
WellFormed(t) == \A e, f \in t : e.parts = f.parts => e = f

\* The process may list a directory of this kind / look a name up in it.
Readable(kind) == kind \in {"dir", "nosearch"}

Searchable(kind) == kind \in {"dir", "noread"}

\* Everything that exists below the current directory.
Entries(t) == t \cup ParentDirs(t)

\* What is at a location, given as parts below the root: a kind, or
\* "none".
KindAt(loc, t) ==
    IF Len(loc) <= Len(CwdParts)
    THEN IF SubSeq(CwdParts, 1, Len(loc)) = loc THEN "dir" ELSE "none"
    ELSE IF SubSeq(loc, 1, Len(CwdParts)) # CwdParts
         THEN "none"
         ELSE LET below == SubSeq(loc, Len(CwdParts) + 1, Len(loc))
              IN  IF \E e \in Entries(t) : e.parts = below
                  THEN (CHOOSE e \in Entries(t) : e.parts = below).kind
                  ELSE "none"

\* The kernel's walk from loc along the components that are left: what
\* it arrives at, or the errno of the first component that fails.
RECURSIVE Walk(_, _, _)
Walk(loc, components, t) ==
    LET here == KindAt(loc, t)
    IN  IF components = <<>>
        THEN IF here = "file" THEN "file" ELSE "dir"
        ELSE IF here = "file"
        THEN "ENOTDIR"
        ELSE IF ~Searchable(here)
        THEN "EACCES"
        ELSE IF Head(components) = <<".", ".">>
        THEN Walk(IF loc = <<>> THEN loc ELSE SubSeq(loc, 1, Len(loc) - 1),
                  Tail(components), t)
        ELSE IF Utf8Len(Head(components)) > NAME_MAX
        THEN "ENAMETOOLONG"
        ELSE IF KindAt(Append(loc, Head(components)), t) = "none"
        THEN "ENOENT"
        ELSE Walk(Append(loc, Head(components)), Tail(components), t)

\* os.stat(Path(path)): "file", "dir", or the errno it fails with.
Stat(path, t) ==
    LET ps == Parts(path)
        absolute == ps # <<>> /\ IsAnchor(ps[1])
    IN  IF Utf8Len(Join(ps)) + 1 > PATH_MAX
        THEN "ENAMETOOLONG"
        ELSE Walk(IF absolute THEN <<>> ELSE CwdParts,
                  IF absolute THEN Tail(ps) ELSE ps, t)

\* The errnos Path.exists() and Path.is_file() turn into False; any other
\* OSError propagates to the caller.
IgnoredErrnos == {"ENOENT", "ENOTDIR", "EBADF", "ELOOP"}

\* Path(p).exists() raises; so does Path(p).is_file().
ExistsRaises(st) == st \notin {"file", "dir"} \cup IgnoredErrnos

\* The class of the OSError that os.stat raises for an errno.
ExceptionOf(st) == IF st = "EACCES" THEN "PermissionError" ELSE "OSError"

\* _validate_file_exists, line 55, when exists() returns.
_validate_file_exists(st) == st \in {"file", "dir"} /\ st = "file"

\* What may exist below the current directory in a program run.
MainCandidates ==
    { [parts |-> <<<<"a", ".", "p", "y">>>>, kind |-> "file"],
      [parts |-> <<<<".", "g", "i", "t">>, <<"h", ".", "p", "y">>>>, kind |-> "file"],
      [parts |-> <<<<"k">>, <<"U+00C9", ".", "p", "y">>>>, kind |-> "file"],
      [parts |-> <<<<"k">>>>, kind |-> "nosearch"],
      [parts |-> <<<<"k">>>>, kind |-> "noaccess"] }

\* What may exist below the directory that file discovery walks.
Candidates ==
    MainCandidates \cup
    { [parts |-> <<<<"B", ".", "T", "S">>>>, kind |-> "file"],
      [parts |-> <<<<".", "e", "n", "v">>>>, kind |-> "file"],
      [parts |-> <<<<"p", ".", "e", "n", "v">>>>, kind |-> "file"],
      [parts |-> <<<<"n", ".", "m", "d">>>>, kind |-> "file"],
      [parts |-> <<<<"c", ".", "U+00C9", "N", "V">>>>, kind |-> "file"],
      [parts |-> <<<<"d", ".", "p", "y">>>>, kind |-> "dir"],
      [parts |-> <<<<"s">>, <<"x", ".", "j", "s">>>>, kind |-> "file"],
      [parts |-> <<<<"s">>, <<"d", "i", "s", "t">>, <<"o", ".", "j", "s">>>>, kind |-> "file"],
      [parts |-> <<<<"D", "i", "s", "t">>, <<"k", ".", "j", "s", "x">>>>, kind |-> "file"],
      [parts |-> <<<<"k">>>>, kind |-> "noread"] }

\* The file systems that can be made of a set of entries.
Trees(candidates) == {t \in SUBSET candidates : WellFormed(t)}

\* A file name one character longer than the file system accepts.
LongName == [k \in 1..(NAME_MAX + 1) |-> "a"]

\* The paths a command line may name.
ArgPaths == { <<"a", ".", "p", "y">>, <<".", "g", "i", "t">>, LongName, <<"k", "/", "U+00C9", ".", "p", "y">> }

Argvs == UNION {[1..n -> ArgPaths] : n \in 0..MaxArgs}

---------------------------------------------------------------------------
(* File discovery, lines 57-74. *)

\* path.rglob("*") yields e: every directory above e was listed, which
\* takes read permission on it and search permission on those above it.
\* A directory that cannot be listed is passed over in silence.
Listed(e, t) ==
    \A n \in 1..(Len(e.parts) - 1) :
        LET above == KindAt(CwdParts \o SubSeq(e.parts, 1, n), t)
        IN  /\ Readable(above)
            /\ n < Len(e.parts) - 1 => Searchable(above)

\* file_path.is_file() for an entry that rglob yielded: os.stat of it.
IsFile(e, t) == Stat(Join(e.parts), t) = "file"

\* any(excluded in file_path.parts for excluded in exclude_dirs)
InExcludedDir(e) == \E excluded \in exclude_dirs : excluded \in Range(e.parts)

\* file_path.suffix.lower() in AUDIT_EXTENSIONS
HasAuditExtension(e) == Lower(Suffix(e.parts)) \in AUDIT_EXTENSIONS

\* The entries whose is_file() line 71 calls: those rglob yields, less
\* the ones line 67 skips.
Checked(t) == {e \in Entries(t) : Listed(e, t) /\ ~InExcludedDir(e)}

\* _get_files_in_directory: the list it returns, or the exception that
\* is_file() raises at line 71 for an entry it cannot stat.
_get_files_in_directory(t) ==
    LET failed == {st \in {Stat(Join(e.parts), t) : e \in Checked(t)} :
                      ExistsRaises(st)}
        files == {Join(e.parts) :
                    e \in {f \in Checked(t) : /\ IsFile(f, t)
                                              /\ HasAuditExtension(f)}}
    IN  IF failed # {}
        THEN [raised |-> ExceptionOf(CHOOSE st \in failed : TRUE),
              files |-> <<>>]
        ELSE [raised |-> "none", files |-> Sorted(files)]

---------------------------------------------------------------------------
(* The backend, as requests.get and requests.post can answer. *)

\* GET /api/tags: a response, or a requests.exceptions.RequestException.
HealthOutcomes ==
    { [kind |-> "response", status_code |-> 200],
      [kind |-> "response", status_code |-> 503],
      [kind |-> "ConnectionError", status_code |-> 0] }

\* The "response" texts a model may answer.
ResponseTexts ==
    { <<"R", "E", "J", "E", "C", "T", ":", " ", "k">>, <<"F", "L", "A", "G", ":", " ", "w">>, <<"P", "A", "S", "S">>, <<>>, <<" ", "R", "E", "J", "E", "C", "T", ":", " ", "k", "\n">>,
      <<"\n", "F", "L", "A", "G">>, <<"R", "E", "J", "E", "C", "T", "E", "D">>, <<"F", "L", "A", "G", "G", "E", "D">>, <<"r", "e", "j", "e", "c", "t", ":", " ", "k">>, <<"O", "K", " ", "R", "E", "J", "E", "C", "T">>,
      <<" ", " ">>, <<"R", "E", "J", "E", "C">>, <<"U+000B", "R", "E", "J", "E", "C", "T", ":", " ", "k">>, <<"U+001C", " ", "F", "L", "A", "G", ":", " ", "w", "U+3000">> }

\* The body of a 200 answer: not JSON, an object without "response", an
\* object whose "response" is null, or an object with a "response" text.
Bodies ==
    { [json |-> "invalid", response |-> <<>>],
      [json |-> "no_response", response |-> <<>>],
      [json |-> "null_response", response |-> <<>>] }
    \cup {[json |-> "str_response", response |-> t] : t \in ResponseTexts}

\* POST /api/generate: a response, a timeout, or another exception.
GenerateOutcomes ==
    {[kind |-> "response", status_code |-> 200, body |-> b] : b \in Bodies}
    \cup
    { [kind |-> "response", status_code |-> 500,
       body |-> [json |-> "invalid", response |-> <<>>]],
      [kind |-> "Timeout", status_code |-> 0,
       body |-> [json |-> "invalid", response |-> <<>>]],
      [kind |-> "ConnectionError", status_code |-> 0,
       body |-> [json |-> "invalid", response |-> <<>>]] }

---------------------------------------------------------------------------
(* AIGuard.  An error text is the tuple of the pieces its f-string joins:  *)
(* a literal, the path, the base URL, a number, the body of the answer or  *)
(* str(exception).                                                         *)

\* read_file, lines 76-86: (ok, content or error text).
read_file(file_path, st, readable) ==
    IF ~_validate_file_exists(st)
    THEN [ok |-> FALSE,
          value |-> <<[lit |-> "File not found: "], [path |-> file_path]>>]
    ELSE IF readable
         THEN [ok |-> TRUE, value |-> <<[content |-> file_path]>>]
         ELSE [ok |-> FALSE,
               value |-> <<[lit |-> "Error reading file: "],
                           [exc |-> "UnicodeDecodeError"]>>]

\* A health check that accepts any answer, whatever its status.
CheckAnyStatus(o) == o.kind = "response"

\* _check_ollama_connection, lines 45-51.
_check_ollama_connection(o) ==
    IF o.kind = "response" THEN o.status_code = 200 ELSE FALSE

\* The error result of lines 166-171 and 175-180.
RejectResult(file_path, error) ==
    [status |-> SEVERITY_REJECT, error |-> error, file |-> file_path]

\* The error text of line 177.
UnavailableError(base_url) ==
    << [lit |-> "Ollama service not available at "], [url |-> base_url],
       [lit |-> ". Please ensure Ollama is running: ollama serve"] >>

\* The error text of line 255.
TimeoutError(timeout) ==
    << [lit |-> "Ollama request timed out after "], [secs |-> timeout],
       [lit |-> "s. File audit could not complete - blocking commit for safety."] >>

\* The error text of line 219.
ApiError(status_code) ==
    << [lit |-> "Ollama API error: "], [code |-> status_code],
       [lit |-> " - "], [body |-> "response.text"] >>

\* The error text of line 262.
UnexpectedError(exc) ==
    << [lit |-> "Unexpected error during audit: "], [exc |-> exc] >>

\* A verdict that wants the report to be the keyword and nothing else.
ParseVerdictExact(report) ==
    IF report = <<"R", "E", "J", "E", "C", "T">>
    THEN SEVERITY_REJECT
    ELSE IF report = <<"F", "L", "A", "G">> THEN SEVERITY_FLAG ELSE SEVERITY_PASS

\* The verdict of a report, lines 228-242.
ParseVerdict(report) ==
    IF StartsWith(report, <<"R", "E", "J", "E", "C", "T">>)
    THEN SEVERITY_REJECT
    ELSE IF StartsWith(report, <<"F", "L", "A", "G">>)
         THEN SEVERITY_FLAG
         ELSE SEVERITY_PASS

\* The line that announces a verdict, lines 233, 238 and 241.
Banner(verdict) ==
    IF verdict = SEVERITY_REJECT
    THEN <<"U+1F6A8", " ", "S", "E", "C", "U", "R", "I", "T", "Y", " ", "A", "L", "E", "R", "T", ":", " ", "S", "E", "C", "R", "E", "T", "S", " ", "D", "E", "T", "E", "C", "T", "E", "D">>
    ELSE IF verdict = SEVERITY_FLAG
         THEN <<"U+26A0", "U+FE0F", " ", " ", "F", "L", "A", "G", ":", " ", "I", "s", "s", "u", "e", "s", " ", "f", "o", "u", "n", "d", " ", "b", "u", "t", " ", "n", "o", " ", "c", "r", "i", "t", "i", "c", "a", "l", " ", "s", "e", "c", "r", "e", "t", "s">>
         ELSE <<"U+2705", " ", "P", "A", "S", "S", ":", " ", "N", "o", " ", "s", "e", "c", "u", "r", "i", "t", "y", " ", "i", "s", "s", "u", "e", "s", " ", "d", "e", "t", "e", "c", "t", "e", "d">>

\* What audit_file returns once requests.post has answered or raised,
\* lines 216-265.  The verdict and the report are printed inside the try,
\* so a print() that cannot encode its text ends in the handler of line
\* 259.
GenerateResult(file_path, o, encoding) ==
    IF o.kind = "Timeout"
    THEN RejectResult(file_path, TimeoutError(DEFAULT_TIMEOUT))
    ELSE IF o.kind # "response"
    THEN RejectResult(file_path, UnexpectedError(o.kind))
    ELSE IF o.status_code # 200
    THEN RejectResult(file_path, ApiError(o.status_code))
    ELSE IF o.body.json = "invalid"
    THEN RejectResult(file_path, UnexpectedError("JSONDecodeError"))
    ELSE IF o.body.json = "null_response"
    THEN RejectResult(file_path, UnexpectedError("AttributeError"))
    ELSE LET report == Strip(IF o.body.json = "no_response"
                             THEN <<>>
                             ELSE o.body.response)
             verdict == ParseVerdict(report)
         IN  IF ~(CanPrint(Banner(verdict), encoding)
                  /\ CanPrint(report, encoding))
             THEN RejectResult(file_path,
                               UnexpectedError("UnicodeEncodeError"))
             ELSE [status |-> verdict, file |-> file_path,
                   report |-> report, model |-> MODEL_NAME]

\* An exit code that fails on a FLAG as well.
ExitCodeStrict(rs) ==
    LET bad == Cardinality({k \in 1..Len(rs) : rs[k].status # SEVERITY_PASS})
    IN  IF bad = 0 THEN 0 ELSE 1

\* The exit code of main, lines 336 and 350.
ExitCode(rs) ==
    LET rejects == Cardinality({k \in 1..Len(rs) :
                                  rs[k].status = SEVERITY_REJECT})
    IN  IF rejects = 0 THEN 0 ELSE 1

\* The lines of the summary that hold a character outside ASCII, lines
\* 344-346, without the counts.
SummaryLines == { <<"U+2717", " ", "R", "E", "J", "E", "C", "T", ":", " ">>, <<"U+26A0", " ", "F", "L", "A", "G", ":", " ">>, <<"U+2713", " ", "P", "A", "S", "S", ":", " ">> }

\* print_audit_report, lines 277-301, prints the report of every result
\* that has one (an error text is made of ASCII pieces and a path that
\* line 271 has printed), and lines 340-347 print the summary.
ReportsPrinted(rs, encoding) ==
    /\ \A k \in 1..Len(rs) :
           "report" \in DOMAIN rs[k] => CanPrint(rs[k].report, encoding)
    /\ \A line \in SummaryLines : CanPrint(line, encoding)

---------------------------------------------------------------------------
(* The program. *)

\* No exception has left main().
NoException == [exception |-> "none", line |-> 0]

Init ==
    /\ argv \in Argvs
    /\ tree \in Trees(MainCandidates)
    /\ stdout \in StdoutEncodings
    /\ pc = "main"
    /\ file_paths = <<>>
    /\ idx = 0
    /\ results = <<>>
    /\ reads = <<>>
    /\ calls = <<>>
    /\ exit_code = -1
    /\ uncaught = NoException

\* audit_file returns r to batch_audit, which appends it and takes the
\* next file, or returns to main after the last, lines 270-274.
Return(r) ==
    /\ results' = Append(results, r)
    /\ IF idx < Len(file_paths)
       THEN idx' = idx + 1 /\ pc' = "read"
       ELSE idx' = idx /\ pc' = "summary"

\* main with file arguments, lines 306-329.
MainArgs ==
    /\ pc = "main"
    /\ argv # <<>>
    /\ file_paths' = argv
    /\ idx' = 1
    /\ pc' = "read"
    /\ UNCHANGED <<argv, tree, stdout, results, reads, calls, exit_code, uncaught>>

\* main without file arguments: scan the current directory, lines 306-329.
\* The call of line 311 is inside no try.
MainScan ==
    /\ pc = "main"
    /\ argv = <<>>
    /\ LET scan == _get_files_in_directory(tree)
       IN  IF scan.raised # "none"
           THEN /\ pc' = "crashed"
                /\ uncaught' = [exception |-> scan.raised, line |-> 71]
                /\ exit_code' = 1
                /\ UNCHANGED <<file_paths, idx>>
           ELSE /\ file_paths' = scan.files
                /\ IF scan.files = <<>>
                   THEN pc' = "exit" /\ exit_code' = 1 /\ idx' = idx
                   ELSE pc' = "read" /\ exit_code' = exit_code /\ idx' = 1
                /\ UNCHANGED uncaught
    /\ UNCHANGED <<argv, tree, stdout, results, reads, calls>>

\* batch_audit announces the next file, line 271, and audit_file runs up
\* to the result of read_file, lines 164-171.  The print of line 271 and
\* the exists() of line 55 are inside no try.
ReadFile ==
    /\ pc = "read"
    /\ LET file_path == file_paths[idx]
           st == Stat(file_path, tree)
       IN  IF ~CanPrint(file_path, stdout)
           THEN /\ pc' = "crashed"
                /\ uncaught' = [exception |-> "UnicodeEncodeError", line |-> 271]
                /\ exit_code' = 1
                /\ UNCHANGED <<idx, results, reads>>
           ELSE IF ExistsRaises(st)
           THEN /\ reads' = Append(reads, [file |-> idx, stat |-> st, ok |-> FALSE])
                /\ pc' = "crashed"
                /\ uncaught' = [exception |-> ExceptionOf(st), line |-> 55]
                /\ exit_code' = 1
                /\ UNCHANGED <<idx, results>>
           ELSE \E readable \in BOOLEAN :
                    LET r == read_file(file_path, st, readable)
                    IN  /\ reads' = Append(reads, [file |-> idx, stat |-> st, ok |-> r.ok])
                        /\ IF r.ok
                           THEN pc' = "health" /\ UNCHANGED <<idx, results>>
                           ELSE Return(RejectResult(file_path, r.value))
                        /\ UNCHANGED <<uncaught, exit_code>>
    /\ UNCHANGED <<argv, tree, stdout, file_paths, calls>>

\* audit_file's health check, lines 174-180.
CheckOllamaConnection ==
    /\ pc = "health"
    /\ \E o \in HealthOutcomes :
           /\ calls' = Append(calls, [file |-> idx, req |-> "GET /api/tags",
                                      outcome |-> o])
           /\ IF _check_ollama_connection(o)
              THEN pc' = "generate" /\ UNCHANGED <<idx, results>>
              ELSE Return(RejectResult(file_paths[idx],
                                       UnavailableError(OLLAMA_BASE_URL)))
    /\ UNCHANGED <<argv, tree, stdout, file_paths, reads, exit_code, uncaught>>

\* A generation step that sends the request again after a timeout.
GenerateRetrying ==
    /\ pc = "generate"
    /\ \E o \in GenerateOutcomes :
           /\ calls' = Append(calls, [file |-> idx, req |-> "POST /api/generate",
                                      outcome |-> o])
           /\ IF o.kind = "Timeout"
              THEN UNCHANGED <<pc, idx, results>>
              ELSE Return(GenerateResult(file_paths[idx], o, stdout))
    /\ UNCHANGED <<argv, tree, stdout, file_paths, reads, exit_code, uncaught>>

\* audit_file's generation request and verdict, lines 197-265.  Line 201
\* prints the path that line 271 has printed.
Generate ==
    /\ pc = "generate"
    /\ \E o \in GenerateOutcomes :
           /\ calls' = Append(calls, [file |-> idx, req |-> "POST /api/generate",
                                      outcome |-> o])
           /\ Return(GenerateResult(file_paths[idx], o, stdout))
    /\ UNCHANGED <<argv, tree, stdout, file_paths, reads, exit_code, uncaught>>

\* main after batch_audit: reports, summary and exit, lines 332-350.  The
\* prints are inside no try: when one raises, sys.exit is not reached and
\* the interpreter ends the process with 1.
Summary ==
    /\ pc = "summary"
    /\ IF ReportsPrinted(results, stdout)
       THEN /\ exit_code' = ExitCode(results)
            /\ pc' = "exit"
            /\ UNCHANGED uncaught
       ELSE /\ exit_code' = 1
            /\ pc' = "crashed"
            /\ uncaught' = [exception |-> "UnicodeEncodeError", line |-> 344]
    /\ UNCHANGED <<argv, tree, stdout, file_paths, idx, results, reads, calls>>

Next ==
    \/ MainArgs
    \/ MainScan
    \/ ReadFile
    \/ CheckOllamaConnection
    \/ Generate
    \/ Summary

Spec == Init /\ [][Next]_vars

\* File discovery alone, over every tree of Candidates.
InitLocator ==
    /\ argv = <<>>
    /\ tree \in Trees(Candidates)
    /\ stdout \in StdoutEncodings
    /\ pc = "main"
    /\ file_paths = <<>>
    /\ idx = 0
    /\ results = <<>>
    /\ reads = <<>>
    /\ calls = <<>>
    /\ exit_code = -1
    /\ uncaught = NoException

NextLocator == MainScan

SpecLocator == InitLocator /\ [][NextLocator]_vars

---------------------------------------------------------------------------
(* What the properties below speak about. *)

\* audit_file was called for file k.
Started(k) == \E j \in 1..Len(reads) : reads[j].file = k

\* The audit of file k has ended: audit_file returned or raised.
Ended(k) ==
    /\ k \in 1..Len(file_paths)
    /\ Started(k)
    /\ \/ k < idx
       \/ k = idx /\ pc \in {"summary", "exit", "crashed"}

\* audit_file returned a result for file k.
Returned(k) == k \in 1..Len(results)

\* The requests issued while auditing file k, as positions in calls.
Gets(k) ==
    {j \in 1..Len(calls) : calls[j].file = k /\ calls[j].req = "GET /api/tags"}

Posts(k) ==
    {j \in 1..Len(calls) :
        calls[j].file = k /\ calls[j].req = "POST /api/generate"}

\* File k was read, the health check answered 200 and so did generation.
ReadOk(k) == \E j \in 1..Len(reads) : reads[j].file = k /\ reads[j].ok

HealthOk(k) ==
    \E j \in Gets(k) : /\ calls[j].outcome.kind = "response"
                        /\ calls[j].outcome.status_code = 200

GenerationOk(k) ==
    \E j \in Posts(k) : /\ calls[j].outcome.kind = "response"
                         /\ calls[j].outcome.status_code = 200

\* An error text mentions the backend address / the timeout / anything.
MentionsUrl(error, url) ==
    \E j \in 1..Len(error) : "url" \in DOMAIN error[j] /\ error[j].url = url

MentionsSeconds(error, secs) ==
    \E j \in 1..Len(error) : "secs" \in DOMAIN error[j] /\ error[j].secs = secs

NonEmptyText(error) ==
    \E j \in 1..Len(error) : "lit" \in DOMAIN error[j] /\ error[j].lit # ""

HasError(r) == "error" \in DOMAIN r /\ NonEmptyText(r.error)

\* The process has ended.
Exited == pc \in {"exit", "crashed"}

---------------------------------------------------------------------------
(* C1. *)

\* C1: fail-closed.  Every audit that ended has a status; the status is
\* PASS or FLAG only if the file was read, the health check succeeded and
\* the generation call answered with a success status; an audit in which
\* any of the three did not succeed has status REJECT.
FailClosed ==
    \A k \in 1..Len(file_paths) :
        Ended(k) =>
            /\ Returned(k)
            /\ results[k].status \in {SEVERITY_PASS, SEVERITY_FLAG}
                   => ReadOk(k) /\ HealthOk(k) /\ GenerationOk(k)
            /\ ~(ReadOk(k) /\ HealthOk(k) /\ GenerationOk(k))
                   => results[k].status = SEVERITY_REJECT

\* The part of C1 that holds of the code: no result that audit_file
\* returns is PASS or FLAG unless all three steps succeeded.
FailClosedOnReturn ==
    \A k \in 1..Len(results) :
        /\ results[k].status \in {SEVERITY_PASS, SEVERITY_FLAG}
               => ReadOk(k) /\ HealthOk(k) /\ GenerationOk(k)
        /\ ~(ReadOk(k) /\ HealthOk(k) /\ GenerationOk(k))
               => results[k].status = SEVERITY_REJECT

---------------------------------------------------------------------------
(* C2. *)

\* C2: the audit of a path that is not an existing regular file returns
\* REJECT with a non-empty error, and issues no request to the backend.
MissingFileRejected ==
    \A k \in 1..Len(file_paths) :
        (Ended(k) /\ Stat(file_paths[k], tree) # "file") =>
            /\ Returned(k)
            /\ results[k].status = SEVERITY_REJECT
            /\ HasError(results[k])
            /\ Gets(k) = {} /\ Posts(k) = {}

---------------------------------------------------------------------------
(* C3. *)

\* C3: when the health check of a file's audit fails (a status other than
\* 200, or an exception of the request), the audit returns REJECT with an
\* error that mentions the backend address, and no generation request is
\* issued for that file.
HealthFailureRejects ==
    \A k \in 1..Len(file_paths) :
        (Gets(k) # {} /\ ~HealthOk(k)) =>
            /\ Ended(k) /\ Returned(k)
            /\ results[k].status = SEVERITY_REJECT
            /\ "error" \in DOMAIN results[k]
            /\ MentionsUrl(results[k].error, OLLAMA_BASE_URL)
            /\ Posts(k) = {}

\* Two files in a row hit a failing health check, one by a status and one
\* by an exception, and the batch has ended.
HealthFailureWitness ==
    /\ pc = "exit"
    /\ Len(results) = 2
    /\ \E i \in Gets(1), j \in Gets(2) :
           /\ calls[i].outcome.kind = "ConnectionError"
           /\ calls[j].outcome.kind = "response"
           /\ calls[j].outcome.status_code = 503
    /\ MentionsUrl(results[1].error, OLLAMA_BASE_URL)
    /\ MentionsUrl(results[2].error, OLLAMA_BASE_URL)

---------------------------------------------------------------------------
(* C4. *)

\* The text between the first and the last character that is not
\* whitespace.
Trimmed(s) ==
    LET solid == {k \in 1..Len(s) : s[k] \notin Whitespace}
    IN  IF solid = {}
        THEN <<>>
        ELSE SubSeq(s, CHOOSE a \in solid : \A b \in solid : a <= b,
                       CHOOSE a \in solid : \A b \in solid : b <= a)

\* t is word followed by anything.
BeginsWith(t, word) ==
    \E n \in 0..Len(t) : n = Len(word) /\ \A k \in 1..n : t[k] = word[k]

\* The leading token of t: its longest prefix of letters, digits and "_".
TokenChars ==
    {c \in Alphabet :
        Ord[c] \in (48..57) \cup (65..90) \cup {95} \cup (97..122)
                   \cup {201, 233, 304, 8490}}

LeadingToken(t) ==
    LET stops == {k \in 1..Len(t) : t[k] \notin TokenChars}
    IN  IF stops = {}
        THEN t
        ELSE SubSeq(t, 1, (CHOOSE a \in stops : \A b \in stops : a <= b) - 1)

\* The response text of the successful generation call of file k.
HasResponseText(k) ==
    \E j \in Posts(k) : /\ calls[j].outcome.kind = "response"
                         /\ calls[j].outcome.status_code = 200
                         /\ calls[j].outcome.body.json = "str_response"

ResponseText(k) ==
    calls[CHOOSE j \in Posts(k) : TRUE].outcome.body.response

\* C4 as stated: the status is REJECT if the leading token of the trimmed
\* response text is exactly REJECT, FLAG if it is exactly FLAG, and PASS
\* for any other content.
VerdictByLeadingToken ==
    \A k \in 1..Len(results) :
        HasResponseText(k) =>
            LET token == LeadingToken(Trimmed(ResponseText(k)))
            IN  results[k].status =
                    IF token = <<"R", "E", "J", "E", "C", "T">> THEN SEVERITY_REJECT
                    ELSE IF token = <<"F", "L", "A", "G">> THEN SEVERITY_FLAG
                    ELSE SEVERITY_PASS

\* C4 as amended: when standard output can encode what audit_file
\* prints (it is UTF-8), the status is REJECT if the trimmed response text
\* begins with the characters REJECT, whatever follows them; else FLAG if
\* it begins with the characters FLAG; else PASS, the empty text included;
\* and the report is the trimmed text.  When standard output cannot, the
\* status is REJECT with an error text and no report, whatever the
\* response text.
VerdictByPrefix ==
    \A k \in 1..Len(results) :
        HasResponseText(k) =>
            LET t == Trimmed(ResponseText(k))
            IN  IF stdout = "utf-8"
                THEN /\ "report" \in DOMAIN results[k]
                     /\ results[k].report = t
                     /\ results[k].status =
                            IF BeginsWith(t, <<"R", "E", "J", "E", "C", "T">>) THEN SEVERITY_REJECT
                            ELSE IF BeginsWith(t, <<"F", "L", "A", "G">>) THEN SEVERITY_FLAG
                            ELSE SEVERITY_PASS
                ELSE /\ results[k].status = SEVERITY_REJECT
                     /\ HasError(results[k])
                     /\ "report" \notin DOMAIN results[k]

\* A response whose leading token is longer than the keyword it begins
\* with got the keyword's status; so did, in the same run, a response
\* padded with a vertical tab.
VerdictWitness ==
    /\ stdout = "utf-8"
    /\ Len(results) = 2
    /\ HasResponseText(1) /\ HasResponseText(2)
    /\ ResponseText(1) = <<"F", "L", "A", "G", "G", "E", "D">>
    /\ results[1].status = SEVERITY_FLAG
    /\ ResponseText(2) = <<"U+000B", "R", "E", "J", "E", "C", "T", ":", " ", "k">>
    /\ results[2].status = SEVERITY_REJECT

---------------------------------------------------------------------------
(* C5. *)

\* batch_audit is over: it returned to main, or an exception left it.
BatchOver ==
    \/ pc \in {"summary", "crashed"}
    \/ pc = "exit" /\ file_paths # <<>>

\* C5: batch_audit gives one result per path, in the order of the paths,
\* whatever fails on the way.
BatchPreservesLengthAndOrder ==
    BatchOver =>
        /\ Len(results) = Len(file_paths)
        /\ \A k \in 1..Len(results) : results[k].file = file_paths[k]

\* The part of C5 that holds of the code: the results so far are those of
\* the first paths, in order.
BatchResultsArePrefix ==
    /\ Len(results) <= Len(file_paths)
    /\ \A k \in 1..Len(results) : results[k].file = file_paths[k]

---------------------------------------------------------------------------
(* C6. *)

SomeReject == \E k \in 1..Len(results) : results[k].status = SEVERITY_REJECT

\* C6 as stated: the exit code is non-zero if and only if some result has
\* status REJECT.
ExitNonZeroIffReject ==
    Exited => (exit_code # 0 <=> SomeReject)

\* C6 as amended: the exit code is 0 if and only if at least one file was
\* to be audited, every one of them got a result, no result is REJECT and
\* no exception ended the run; in every other run that ends it is 1.
ExitZeroIffCleanBatch ==
    Exited =>
        /\ exit_code \in {0, 1}
        /\ exit_code = 0 <=> /\ file_paths # <<>>
                              /\ Len(results) = Len(file_paths)
                              /\ ~SomeReject
                              /\ uncaught = NoException

\* A run with a FLAG and a PASS and no REJECT exited with 0.
ExitWitness ==
    /\ pc = "exit"
    /\ exit_code = 0
    /\ Len(results) = 2
    /\ results[1].status = SEVERITY_FLAG
    /\ results[2].status = SEVERITY_PASS

---------------------------------------------------------------------------
(* C7 and C9. *)

\* The entries of t that file discovery is to return: regular files whose
\* suffix, in lower case, is in the allow-list and none of whose path
\* segments is the name of an excluded directory.
EligibleEntries(t) ==
    {e \in t : /\ e.kind = "file"
               /\ \E ext \in AUDIT_EXTENSIONS : Lower(Suffix(e.parts)) = ext
               /\ \A k \in 1..Len(e.parts) : e.parts[k] \notin exclude_dirs}

StrictlyIncreasing(paths) ==
    \A i, j \in 1..Len(paths) : i < j => StrLess(paths[i], paths[j])

\* The scan of line 311 came back with a list.
ScanReturned == argv = <<>> /\ pc # "main" /\ uncaught.line # 71

\* C7: a run without file arguments whose scan yields no file exits with
\* 1 and has validated no file, issued no request and produced no result;
\* a run whose scan yields some audits exactly the files of the scan, each
\* once, in the order of the scan: when the run ends, every one of them
\* has been read and has a result.
ScanDecidesAudit ==
    ScanReturned =>
        IF file_paths = <<>>
        THEN /\ pc = "exit" /\ exit_code = 1
             /\ reads = <<>> /\ calls = <<>> /\ results = <<>>
        ELSE /\ StrictlyIncreasing(file_paths)
             /\ \A k \in 1..Len(reads) : reads[k].file = k
             /\ \A k \in 1..Len(results) : results[k].file = file_paths[k]
             /\ \A j \in 1..Len(calls) : calls[j].file \in 1..Len(reads)
             /\ Exited => /\ Len(reads) = Len(file_paths)
                          /\ Len(results) = Len(file_paths)

\* The part of C7 that holds of the code: an empty scan ends the run with
\* 1 before anything is audited, and what is audited after another scan
\* are the first files of the scan, each once and in its order.
ScanAuditsInOrder ==
    ScanReturned =>
        IF file_paths = <<>>
        THEN /\ pc = "exit" /\ exit_code = 1
             /\ reads = <<>> /\ calls = <<>> /\ results = <<>>
        ELSE /\ StrictlyIncreasing(file_paths)
             /\ \A k \in 1..Len(reads) : reads[k].file = k
             /\ \A k \in 1..Len(results) : results[k].file = file_paths[k]
             /\ \A j \in 1..Len(calls) : calls[j].file \in 1..Len(reads)
             /\ pc = "exit" => /\ Len(reads) = Len(file_paths)
                               /\ Len(results) = Len(file_paths)

\* C9: file discovery returns exactly the eligible entries, as the strings
\* of their paths in increasing order, and nothing below .git.
DiscoveryExact ==
    (argv = <<>> /\ pc # "main") =>
        /\ ScanReturned
        /\ Range(file_paths) = {Join(e.parts) : e \in EligibleEntries(tree)}
        /\ Len(file_paths) = Cardinality(EligibleEntries(tree))
        /\ StrictlyIncreasing(file_paths)
        /\ \A k \in 1..Len(file_paths) : <<".", "g", "i", "t">> \notin Range(Parts(file_paths[k]))

\* Every directory above the entry is one the process may list and search.
Accessible(e, t) ==
    \A n \in 1..(Len(e.parts) - 1) :
        \A d \in t : d.parts = SubSeq(e.parts, 1, n) => d.kind = "dir"

\* The part of C9 that holds of the code: a list that discovery returns
\* holds exactly the eligible entries below directories that the process
\* may list and search, in increasing order, and nothing below .git.
DiscoveryExactOnReturn ==
    ScanReturned =>
        /\ Range(file_paths) =
               {Join(e.parts) :
                   e \in {f \in EligibleEntries(tree) : Accessible(f, tree)}}
        /\ StrictlyIncreasing(file_paths)
        /\ \A k \in 1..Len(file_paths) : <<".", "g", "i", "t">> \notin Range(Parts(file_paths[k]))

\* Discovery returned the files it is to return from a tree with none of
\* the directories that stop the process: the upper-case suffix, the
\* nested file, the look-alike Dist and the non-ASCII name, last, are
\* returned; the files below .git and dist, the directory d.py, .env,
\* n.md and the suffix that lowers to a non-ASCII one are not.
DiscoveryReturns ==
    /\ pc = "read"
    /\ file_paths = << <<"B", ".", "T", "S">>, <<"D", "i", "s", "t", "/", "k", ".", "j", "s", "x">>, <<"a", ".", "p", "y">>, <<"k", "/", "U+00C9", ".", "p", "y">>,
                       <<"p", ".", "e", "n", "v">>, <<"s", "/", "x", ".", "j", "s">> >>

\* Discovery raised: a directory that may be listed and not searched holds
\* an entry.
DiscoveryRaises ==
    /\ argv = <<>>
    /\ pc = "crashed"
    /\ uncaught = [exception |-> "PermissionError", line |-> 71]

---------------------------------------------------------------------------
(* C8. *)

\* C8: no exception leaves audit_file; every audit that ended returned a
\* result.
NoExceptionEscapes ==
    \A k \in 1..Len(file_paths) : Ended(k) => Returned(k)

---------------------------------------------------------------------------
(* C10. *)

\* C10: one audit issues at most one health check and then at most one
\* generation request, the latter only after the health check succeeded;
\* a generation request that timed out is the last request of that audit,
\* which returns REJECT with an error that names the configured timeout.
RequestOrder ==
    \A k \in 1..Len(file_paths) :
        /\ Cardinality(Gets(k)) <= 1
        /\ Cardinality(Posts(k)) <= 1
        /\ Posts(k) # {} =>
               /\ HealthOk(k)
               /\ \A g \in Gets(k), p \in Posts(k) : g < p
        /\ \A j \in Posts(k) :
               calls[j].outcome.kind = "Timeout" =>
                   /\ Ended(k) /\ Returned(k)
                   /\ results[k].status = SEVERITY_REJECT
                   /\ "error" \in DOMAIN results[k]
                   /\ MentionsSeconds(results[k].error, DEFAULT_TIMEOUT)
                   /\ \A i \in 1..Len(calls) : calls[i].file = k => i <= j

\* The generation request of the first file timed out; the second file
\* was then audited with requests of its own.
TimeoutWitness ==
    /\ Len(results) = 2
    /\ \E j \in Posts(1) : calls[j].outcome.kind = "Timeout"
    /\ results[1].status = SEVERITY_REJECT
    /\ Posts(2) # {}

====
